---- MODULE Spec2Model ----
(***************************************************************************)
(* Model of planning/run_planner_review.py: the driver that awaits five    *)
(* collaborator calls in sequence, aggregates their results into the final *)
(* report, writes the report as JSON and renders and writes the Markdown   *)
(* summary.                                                                *)
(*                                                                         *)
(* Python values: a dict is a record (a key is present iff it is in the    *)
(* record's DOMAIN, {} is the function with empty domain), a list is a     *)
(* sequence, None is PyNone.  Text that the code takes apart (paths,       *)
(* feature names) is a sequence of one-character strings; the summary is   *)
(* the sequence of its lines, a line being the sequence of the pieces its  *)
(* f-string concatenates.                                                  *)
(***************************************************************************)
EXTENDS Integers, Sequences, FiniteSets, TLC

VARIABLES
    pc,                 \* position of the run in run_minecraft_skin_studio_planning
    in_flight,          \* collaborator calls awaited and not yet returned
    calls,              \* collaborator calls invoked so far, in order
    script_dir,         \* os.path.dirname(__file__)
    clock,              \* wall clock, seconds since midnight
    project_plan,       \* locals of the run
    agent_assignments,
    milestones,
    test_requirements,
    integrated_report,
    final_report,
    report_path,
    summary_path,
    summary,            \* local `summary` of generate_planning_summary
    report_file,        \* the file at report_path: "absent", "opened", "written"
    summary_file,       \* the file at summary_path: "absent", "opened", "written"
    report_content,     \* what json.dump wrote
    summary_content,    \* what f.write wrote
    returned,           \* value returned by the run
    error,              \* the exception that ended the run, [kind, at]
    runs,               \* concurrent invocations of the script: per run pc, start, path
    disk                \* report and summary paths on disk -> the run that wrote them last

vars == <<pc, in_flight, calls, script_dir, clock, project_plan, agent_assignments,
          milestones, test_requirements, integrated_report, final_report,
          report_path, summary_path, summary, report_file, summary_file,
          report_content, summary_content, returned, error, runs, disk>>

\* ------------------------------------------------------------------ bounds

\* longest list a collaborator returns (phases, assignments, milestones)
MaxLen == 2
\* latest second the clock of the two-run model reaches
MaxClock == 3

\* ------------------------------------------------------------ Python values

PyNone == [py_none |-> TRUE]
Unbound == [py_unbound |-> TRUE]
EmptyDict == <<>>

HasKey(d, k) == k \in DOMAIN d

\* truth value of None or a dict: None and {} are falsy
Truthy(v) == v # PyNone /\ DOMAIN v # {}

\* dict.get(k, default)
Get(d, k, default) == IF HasKey(d, k) THEN d[k] ELSE default

NoError == [kind |-> "none", at |-> "none"]

\* sequences over S of length at most n
SeqsUpTo(S, n) == UNION {[1..k -> S] : k \in 0..n}

RECURSIVE Concat(_)
\* the concatenation of a sequence of sequences
Concat(ss) == IF ss = <<>> THEN <<>> ELSE Head(ss) \o Concat(Tail(ss))

\* --------------------------------------------------------------------- text

LowerLetters == <<"a", "b", "c", "d", "e", "f", "g", "h", "i", "j", "k", "l", "m",
                  "n", "o", "p", "q", "r", "s", "t", "u", "v", "w", "x", "y", "z">>
UpperLetters == <<"A", "B", "C", "D", "E", "F", "G", "H", "I", "J", "K", "L", "M",
                  "N", "O", "P", "Q", "R", "S", "T", "U", "V", "W", "X", "Y", "Z">>
Digits == <<"0", "1", "2", "3", "4", "5", "6", "7", "8", "9">>

Range(s) == {s[i] : i \in DOMAIN s}
IndexOf(s, c) == CHOOSE i \in DOMAIN s : s[i] = c

IsCased(c) == c \in Range(LowerLetters) \cup Range(UpperLetters)
\* str.upper() and str.lower() of one character
Upper(c) == IF c \in Range(LowerLetters) THEN UpperLetters[IndexOf(LowerLetters, c)] ELSE c
Lower(c) == IF c \in Range(UpperLetters) THEN LowerLetters[IndexOf(UpperLetters, c)] ELSE c

RECURSIVE Replace(_, _, _)
\* str.replace(old, new): every non-overlapping occurrence of old, left to right
Replace(s, old, new) ==
    IF Len(s) < Len(old) THEN s
    ELSE IF SubSeq(s, 1, Len(old)) = old
         THEN new \o Replace(SubSeq(s, Len(old) + 1, Len(s)), old, new)
         ELSE <<Head(s)>> \o Replace(Tail(s), old, new)

\* str.title(): a cased character is upper-cased when the character before it is
\* uncased (or it is the first), and lower-cased otherwise
Title(s) ==
    [i \in DOMAIN s |->
        IF ~IsCased(s[i]) THEN s[i]
        ELSE IF i = 1 \/ ~IsCased(s[i - 1]) THEN Upper(s[i]) ELSE Lower(s[i])]

\* a number below 100 as two decimal digits (%H, %M, %S)
TwoDigits(n) == <<Digits[(n \div 10) + 1], Digits[(n % 10) + 1]>>

\* the day the clock counts the seconds of
ClockDate == <<"2", "0", "2", "6", "0", "1", "0", "1">>

\* datetime.strftime('%Y%m%d_%H%M%S') of the clock value t
Strftime(t) ==
    ClockDate \o <<"_">> \o TwoDigits(t \div 3600) \o TwoDigits((t \div 60) % 60)
              \o TwoDigits(t % 60)

\* datetime.isoformat() of the clock value t (whole seconds)
Isoformat(t) ==
    SubSeq(ClockDate, 1, 4) \o <<"-">> \o SubSeq(ClockDate, 5, 6) \o <<"-">>
        \o SubSeq(ClockDate, 7, 8) \o <<"T">> \o TwoDigits(t \div 3600) \o <<":">>
        \o TwoDigits((t \div 60) % 60) \o <<":">> \o TwoDigits(t % 60)

\* os.path.join(a, b) for a relative b
OsPathJoin(a, b) ==
    IF a = <<>> THEN b
    ELSE IF a[Len(a)] = "/" THEN a \o b
    ELSE a \o <<"/">> \o b

\* f"minecraft_skin_studio_plan_{...}.json"
ReportFileName(t) ==
    <<"m", "i", "n", "e", "c", "r", "a", "f", "t", "_", "s", "k", "i", "n", "_",
      "s", "t", "u", "d", "i", "o", "_", "p", "l", "a", "n", "_">>
        \o Strftime(t) \o <<".", "j", "s", "o", "n">>

ReportPath(dir, t) == OsPathJoin(dir, ReportFileName(t))

\* report_path.replace('.json', '_summary.md')
SummaryPath(path) ==
    Replace(path, <<".", "j", "s", "o", "n">>,
            <<"_", "s", "u", "m", "m", "a", "r", "y", ".", "m", "d">>)

\* ------------------------------------------------------------------- inputs

\* os.path.dirname(__file__): the script run from its directory, from a plain
\* directory, and from a directory whose name holds ".json"
ScriptDirs ==
    { <<>>,
      <<"/", "p">>,
      <<"/", "a", ".", "j", "s", "o", "n", "/", "p">> }

project_info ==
    [ name |-> "minecraft-skin-studio",
      type |-> "web_application",
      description |-> "AI-powered Minecraft skin creator for kids",
      target_users |-> "children_7_12",
      key_features |->
        << <<"p", "i", "x", "e", "l", "_", "e", "d", "i", "t", "o", "r">>,
           <<"a", "i", "_", "a", "s", "s", "i", "s", "t", "a", "n", "c", "e">>,
           <<"3", "d", "_", "p", "r", "e", "v", "i", "e", "w">>,
           <<"s", "a", "f", "e", "_", "s", "h", "a", "r", "i", "n", "g">>,
           <<"e", "d", "u", "c", "a", "t", "i", "o", "n", "a", "l">> >>,
      technologies |-> <<"react", "claude_api", "threejs", "canvas_api", "pwa">>,
      special_requirements |->
        <<"coppa_compliance", "child_safety", "offline_capable", "tablet_optimized">> ]

\* what the collaborators may return: their schema is not enforced by the script
WellFormedPhases ==
    { [name |-> "design", duration |-> "2 weeks",
       deliverables |-> <<"wireframes", "style guide">>],
      [name |-> "testing"] }
NamelessPhase == [duration |-> "1 week", deliverables |-> <<"launch">>]

Plans ==
    {[work_breakdown |-> <<>>, phases |-> ps] : ps \in SeqsUpTo(WellFormedPhases, MaxLen)}
        \cup { [work_breakdown |-> <<>>, phases |-> <<NamelessPhase>>],
               [work_breakdown |-> <<"build editor">>],
               [phases |-> <<>>] }

WellFormedAssignments ==
    { [assigned_to |-> "Cipher", task_description |-> "security review",
       priority |-> "high"] }
PartialAssignment == [assigned_to |-> "Lint", task_description |-> "code quality"]

AssignmentLists ==
    SeqsUpTo(WellFormedAssignments, MaxLen) \cup {<<PartialAssignment>>}

WellFormedMilestones ==
    { [name |-> "alpha", description |-> "first playable"],
      [name |-> "beta"] }
NamelessMilestone == [description |-> "launch"]

MilestoneLists ==
    SeqsUpTo(WellFormedMilestones, MaxLen) \cup {<<NamelessMilestone>>}

TestRequirementValues == { EmptyDict, [marker |-> "opaque"] }

Reviews ==
    { PyNone, EmptyDict, [status |-> "ok"], [recommendations |-> <<>>],
      [recommendations |-> <<"add tests", "limit scope">>] }

\* --------------------------------------------------------------- aggregator

success_metrics ==
    << [metric |-> "Time to First Skin", target |-> "< 5 minutes",
        measurement |-> "From app open to exported skin"],
       [metric |-> "AI Helpfulness", target |-> "80% positive feedback",
        measurement |-> "User ratings of AI suggestions"],
       [metric |-> "Safety Incidents", target |-> "0 incidents",
        measurement |-> "Inappropriate content or data exposure"],
       [metric |-> "Parent Satisfaction", target |-> "90% approval",
        measurement |-> "Parent survey results"],
       [metric |-> "Child Engagement", target |-> "30 min average session",
        measurement |-> "Time spent creating"] >>

\* the dict literal of final_report
InitialReport(now, plan, assignments, stones, tests, review) ==
    [ project |-> project_info,
      planning_date |-> Isoformat(now),
      project_plan |-> plan,
      agent_assignments |-> assignments,
      milestones |-> stones,
      test_requirements |-> tests,
      integrated_analysis |-> review,
      key_recommendations |-> <<>>,
      risk_assessment |-> <<>>,
      success_metrics |-> <<>> ]

\* ExtractRecommendations looking for the key under the report's own name
ExtractRecommendationsWrongKey(report, review) ==
    IF Truthy(review) /\ HasKey(review, "key_recommendations")
    THEN [report EXCEPT !.key_recommendations = review["key_recommendations"]]
    ELSE report

\* if integrated_report and "recommendations" in integrated_report: ...
ExtractRecommendations(report, review) ==
    IF Truthy(review) /\ HasKey(review, "recommendations")
    THEN [report EXCEPT !.key_recommendations = review["recommendations"]]
    ELSE report

\* AddSuccessMetrics storing the list under risk_assessment
AddSuccessMetricsWrongKey(report) == [report EXCEPT !.risk_assessment = success_metrics]

\* final_report["success_metrics"] = [...]
AddSuccessMetrics(report) == [report EXCEPT !.success_metrics = success_metrics]

\* final_report as it stands when the report is saved
Aggregate(now, plan, assignments, stones, tests, review) ==
    AddSuccessMetrics(
        ExtractRecommendations(
            InitialReport(now, plan, assignments, stones, tests, review), review))

\* ----------------------------------------------------------------- renderer

Blank == <<>>
\* `for x in xs: summary += ...`: one line, or one group of lines, per element
Each(xs) == DOMAIN xs

\* the f-string template that starts the summary
HeaderLines(report) ==
    << <<"# Minecraft Skin Studio - Development Plan Summary">>,
       Blank,
       <<"Generated: ">> \o report["planning_date"],
       Blank,
       <<"## Project Overview">>,
       <<"- **Name**: ", report["project"]["name"]>>,
       <<"- **Type**: ", report["project"]["type"]>>,
       <<"- **Description**: ", report["project"]["description"]>>,
       <<"- **Target Users**: Children ages 7-12">>,
       Blank,
       <<"## Key Features">> >>

FeatureLine(feature) == <<"- ">> \o Title(Replace(feature, <<"_">>, <<" ">>))
FeatureLines(report) ==
    [i \in Each(report["project"]["key_features"]) |->
        FeatureLine(report["project"]["key_features"][i])]

Bullet(text) == <<"- ", text>>

\* PhaseLines with an empty default for the duration
PhaseLinesNoDefault(phase) ==
    << <<"### ", phase["name"]>>,
       <<"**Duration**: ", Get(phase, "duration", "")>>,
       <<"**Key Deliverables**:">> >>
        \o (IF HasKey(phase, "deliverables")
            THEN [i \in Each(phase["deliverables"]) |-> Bullet(phase["deliverables"][i])]
            ELSE <<>>)
        \o <<Blank>>

\* the body of the loop over the phases
PhaseLines(phase) ==
    << <<"### ", phase["name"]>>,
       <<"**Duration**: ", Get(phase, "duration", "TBD")>>,
       <<"**Key Deliverables**:">> >>
        \o (IF HasKey(phase, "deliverables")
            THEN [i \in Each(phase["deliverables"]) |-> Bullet(phase["deliverables"][i])]
            ELSE <<>>)
        \o <<Blank>>

PhasesSection(report) ==
    <<Blank, <<"## Development Phases">>, Blank>>
        \o (IF HasKey(report, "project_plan") /\ HasKey(report["project_plan"], "phases")
            THEN Concat([i \in Each(report["project_plan"]["phases"]) |->
                            PhaseLines(report["project_plan"]["phases"][i])])
            ELSE <<>>)

\* the body of the loop over the assignments
AssignmentLines(assignment) ==
    << <<"### ", assignment["assigned_to"]>>,
       <<"**Task**: ", assignment["task_description"]>>,
       <<"**Priority**: ", assignment["priority"]>>,
       Blank >>

AssignmentsSection(report) ==
    << <<"## Agent Assignments">>, Blank >>
        \o (IF HasKey(report, "agent_assignments")
            THEN Concat([i \in Each(report["agent_assignments"]) |->
                            AssignmentLines(report["agent_assignments"][i])])
            ELSE <<>>)

MilestoneLine(milestone) ==
    <<"- **", milestone["name"], "**: ", Get(milestone, "description", "")>>

MilestonesSection(report) ==
    << <<"## Key Milestones">>, Blank >>
        \o (IF HasKey(report, "milestones")
            THEN [i \in Each(report["milestones"]) |-> MilestoneLine(report["milestones"][i])]
            ELSE <<>>)

MetricLine(metric) == <<"- **", metric["metric"], "**: ", metric["target"]>>

MetricsSection(report) ==
    <<Blank, <<"## Success Metrics">>, Blank>>
        \o [i \in Each(report["success_metrics"]) |->
                MetricLine(report["success_metrics"][i])]

RecommendationsSection(report) ==
    <<Blank, <<"## Key Recommendations">>, Blank>>
        \o (IF report["key_recommendations"] # <<>>
            THEN [i \in Each(report["key_recommendations"]) |->
                    Bullet(report["key_recommendations"][i])]
            ELSE <<>>)

\* the subscripts of the loops that raise KeyError on a record without the key
PhaseRaises(phase) == ~HasKey(phase, "name")
AssignmentRaises(assignment) ==
    \/ ~HasKey(assignment, "assigned_to")
    \/ ~HasKey(assignment, "task_description")
    \/ ~HasKey(assignment, "priority")
MilestoneRaises(milestone) == ~HasKey(milestone, "name")

\* generate_planning_summary raises before it opens the output file
SummaryRaises(report) ==
    \/ /\ HasKey(report, "project_plan") /\ HasKey(report["project_plan"], "phases")
       /\ \E i \in DOMAIN report["project_plan"]["phases"] :
              PhaseRaises(report["project_plan"]["phases"][i])
    \/ /\ HasKey(report, "agent_assignments")
       /\ \E i \in DOMAIN report["agent_assignments"] :
              AssignmentRaises(report["agent_assignments"][i])
    \/ /\ HasKey(report, "milestones")
       /\ \E i \in DOMAIN report["milestones"] :
              MilestoneRaises(report["milestones"][i])

\* SummaryText with the milestones rendered before the assignments
SummaryTextSwapped(report) ==
    HeaderLines(report) \o FeatureLines(report) \o PhasesSection(report)
        \o MilestonesSection(report) \o AssignmentsSection(report)
        \o MetricsSection(report) \o RecommendationsSection(report)

\* the text generate_planning_summary builds when no subscript raises
SummaryText(report) ==
    HeaderLines(report) \o FeatureLines(report) \o PhasesSection(report)
        \o AssignmentsSection(report) \o MilestonesSection(report)
        \o MetricsSection(report) \o RecommendationsSection(report)

\* ------------------------------------------------------------------ the run

locals == <<project_plan, agent_assignments, milestones, test_requirements,
            integrated_report>>
files == <<report_path, summary_path, summary, report_file, summary_file,
           report_content, summary_content>>
invocations == <<runs, disk>>

\* AfterCall with the milestones requested before the work is assigned
AfterCallSwapped(c) ==
    CASE c = "create_project_plan" -> "create_milestones"
      [] c = "create_milestones" -> "assign_work"
      [] c = "assign_work" -> "define_test_requirements"
      [] c = "define_test_requirements" -> "plan_and_review_project"
      [] c = "plan_and_review_project" -> "final_report"

\* the statement that follows the await of collaborator call c
AfterCall(c) ==
    CASE c = "create_project_plan" -> "assign_work"
      [] c = "assign_work" -> "create_milestones"
      [] c = "create_milestones" -> "define_test_requirements"
      [] c = "define_test_requirements" -> "plan_and_review_project"
      [] c = "plan_and_review_project" -> "final_report"

\* `await collaborator.c(...)`: the call is made and the run suspends at it
Invoke(c) ==
    /\ pc = c
    /\ c \notin in_flight
    /\ in_flight' = in_flight \cup {c}
    /\ calls' = Append(calls, c)
    /\ pc' = pc

\* the awaited call returns and the run resumes at the next statement
Resume(c) ==
    /\ pc = c
    /\ c \in in_flight
    /\ in_flight' = in_flight \ {c}
    /\ pc' = AfterCall(c)
    /\ UNCHANGED calls

\* an exception leaves run_minecraft_skin_studio_planning: nothing catches it
Propagate(kind, at) ==
    /\ pc' = "aborted"
    /\ error' = [kind |-> kind, at |-> at]

\* Raise with the exception caught and the call made again
RaiseAndRetry(c) ==
    /\ pc = c
    /\ c \in in_flight
    /\ in_flight' = in_flight \ {c}
    /\ pc' = c
    /\ error' = [kind |-> "CollaboratorError", at |-> c]
    /\ UNCHANGED <<calls, locals>>

\* the awaited call raises
Raise(c) ==
    /\ pc = c
    /\ c \in in_flight
    /\ in_flight' = in_flight \ {c}
    /\ Propagate("CollaboratorError", c)
    /\ UNCHANGED <<calls, locals>>

CallCreateProjectPlan ==
    /\ Invoke("create_project_plan")
    /\ UNCHANGED <<script_dir, clock, locals, final_report, files, returned, error,
                   invocations>>

ReturnCreateProjectPlan ==
    /\ Resume("create_project_plan")
    /\ \E v \in Plans : project_plan' = v
    /\ UNCHANGED <<script_dir, clock, agent_assignments, milestones, test_requirements,
                   integrated_report, final_report, files, returned, error, invocations>>

RaiseCreateProjectPlan ==
    /\ Raise("create_project_plan")
    /\ UNCHANGED <<script_dir, clock, final_report, files, returned, invocations>>

\* the argument project_plan["work_breakdown"] is evaluated before the call
CallAssignWork ==
    /\ HasKey(project_plan, "work_breakdown")
    /\ Invoke("assign_work")
    /\ UNCHANGED <<script_dir, clock, locals, final_report, files, returned, error,
                   invocations>>

AssignWorkKeyError ==
    /\ pc = "assign_work"
    /\ "assign_work" \notin in_flight
    /\ ~HasKey(project_plan, "work_breakdown")
    /\ Propagate("KeyError", "work_breakdown")
    /\ UNCHANGED <<in_flight, calls, script_dir, clock, locals, final_report, files,
                   returned, invocations>>

ReturnAssignWork ==
    /\ Resume("assign_work")
    /\ \E v \in AssignmentLists : agent_assignments' = v
    /\ UNCHANGED <<script_dir, clock, project_plan, milestones, test_requirements,
                   integrated_report, final_report, files, returned, error, invocations>>

RaiseAssignWork ==
    /\ Raise("assign_work")
    /\ UNCHANGED <<script_dir, clock, final_report, files, returned, invocations>>

CallCreateMilestones ==
    /\ Invoke("create_milestones")
    /\ UNCHANGED <<script_dir, clock, locals, final_report, files, returned, error,
                   invocations>>

ReturnCreateMilestones ==
    /\ Resume("create_milestones")
    /\ \E v \in MilestoneLists : milestones' = v
    /\ UNCHANGED <<script_dir, clock, project_plan, agent_assignments, test_requirements,
                   integrated_report, final_report, files, returned, error, invocations>>

RaiseCreateMilestones ==
    /\ Raise("create_milestones")
    /\ UNCHANGED <<script_dir, clock, final_report, files, returned, invocations>>

CallDefineTestRequirements ==
    /\ Invoke("define_test_requirements")
    /\ UNCHANGED <<script_dir, clock, locals, final_report, files, returned, error,
                   invocations>>

ReturnDefineTestRequirements ==
    /\ Resume("define_test_requirements")
    /\ \E v \in TestRequirementValues : test_requirements' = v
    /\ UNCHANGED <<script_dir, clock, project_plan, agent_assignments, milestones,
                   integrated_report, final_report, files, returned, error, invocations>>

RaiseDefineTestRequirements ==
    /\ Raise("define_test_requirements")
    /\ UNCHANGED <<script_dir, clock, final_report, files, returned, invocations>>

CallPlanAndReviewProject ==
    /\ Invoke("plan_and_review_project")
    /\ UNCHANGED <<script_dir, clock, locals, final_report, files, returned, error,
                   invocations>>

ReturnPlanAndReviewProject ==
    /\ Resume("plan_and_review_project")
    /\ \E v \in Reviews : integrated_report' = v
    /\ UNCHANGED <<script_dir, clock, project_plan, agent_assignments, milestones,
                   test_requirements, final_report, files, returned, error, invocations>>

RaisePlanAndReviewProject ==
    /\ Raise("plan_and_review_project")
    /\ UNCHANGED <<script_dir, clock, final_report, files, returned, invocations>>

\* final_report is built: the literal, the recommendations, the success metrics
BuildFinalReport ==
    /\ pc = "final_report"
    /\ final_report' = Aggregate(clock, project_plan, agent_assignments, milestones,
                                 test_requirements, integrated_report)
    /\ pc' = "open_report"
    /\ UNCHANGED <<in_flight, calls, script_dir, clock, locals, files, returned, error,
                   invocations>>

\* report_path is computed and open(report_path, 'w') creates or truncates the file
OpenReport ==
    /\ pc = "open_report"
    /\ report_path' = ReportPath(script_dir, clock)
    /\ report_file' = "opened"
    /\ pc' = "dump_report"
    /\ UNCHANGED <<in_flight, calls, script_dir, clock, locals, final_report,
                   summary_path, summary, summary_file, report_content, summary_content,
                   returned, error, invocations>>

OpenReportFails ==
    /\ pc = "open_report"
    /\ report_path' = ReportPath(script_dir, clock)
    /\ Propagate("OSError", "open_report")
    /\ UNCHANGED <<in_flight, calls, script_dir, clock, locals, final_report,
                   summary_path, summary, report_file, summary_file, report_content,
                   summary_content, returned, invocations>>

\* DumpReport without the close of the file: the data is still in the buffer
DumpReportUnclosed ==
    /\ pc = "dump_report"
    /\ report_file' = "opened"
    /\ pc' = "render_summary"
    /\ UNCHANGED <<in_flight, calls, script_dir, clock, locals, final_report,
                   report_path, summary_path, summary, summary_file, report_content,
                   summary_content, returned, error, invocations>>

\* json.dump(final_report, f, ...) and the close of the file
DumpReport ==
    /\ pc = "dump_report"
    /\ report_content' = final_report
    /\ report_file' = "written"
    /\ pc' = "render_summary"
    /\ UNCHANGED <<in_flight, calls, script_dir, clock, locals, final_report,
                   report_path, summary_path, summary, summary_file, summary_content,
                   returned, error, invocations>>

\* the write fails part-way: the file stays, without the whole report
DumpReportFails ==
    /\ pc = "dump_report"
    /\ Propagate("OSError", "dump_report")
    /\ UNCHANGED <<in_flight, calls, script_dir, clock, locals, final_report, files,
                   returned, invocations>>

\* summary_path is derived and generate_planning_summary builds its text
RenderSummary ==
    /\ pc = "render_summary"
    /\ summary_path' = SummaryPath(report_path)
    /\ ~SummaryRaises(final_report)
    /\ summary' = SummaryText(final_report)
    /\ pc' = "open_summary"
    /\ UNCHANGED <<in_flight, calls, script_dir, clock, locals, final_report,
                   report_path, report_file, summary_file, report_content,
                   summary_content, returned, error, invocations>>

RenderSummaryRaises ==
    /\ pc = "render_summary"
    /\ summary_path' = SummaryPath(report_path)
    /\ SummaryRaises(final_report)
    /\ Propagate("KeyError", "render_summary")
    /\ UNCHANGED <<in_flight, calls, script_dir, clock, locals, final_report,
                   report_path, summary, report_file, summary_file, report_content,
                   summary_content, returned, invocations>>

\* open(output_path, 'w') creates or truncates the summary file
OpenSummary ==
    /\ pc = "open_summary"
    /\ summary_file' = "opened"
    /\ pc' = "write_summary"
    /\ UNCHANGED <<in_flight, calls, script_dir, clock, locals, final_report,
                   report_path, summary_path, summary, report_file, report_content,
                   summary_content, returned, error, invocations>>

OpenSummaryFails ==
    /\ pc = "open_summary"
    /\ Propagate("OSError", "open_summary")
    /\ UNCHANGED <<in_flight, calls, script_dir, clock, locals, final_report, files,
                   returned, invocations>>

\* f.write(summary) and the close of the file
WriteSummary ==
    /\ pc = "write_summary"
    /\ summary_content' = summary
    /\ summary_file' = "written"
    /\ pc' = "return"
    /\ UNCHANGED <<in_flight, calls, script_dir, clock, locals, final_report,
                   report_path, summary_path, summary, report_file, report_content,
                   returned, error, invocations>>

WriteSummaryFails ==
    /\ pc = "write_summary"
    /\ Propagate("OSError", "write_summary")
    /\ UNCHANGED <<in_flight, calls, script_dir, clock, locals, final_report, files,
                   returned, invocations>>

\* return final_report
Return ==
    /\ pc = "return"
    /\ returned' = final_report
    /\ pc' = "done"
    /\ UNCHANGED <<in_flight, calls, script_dir, clock, locals, final_report, files,
                   error, invocations>>

NoRuns == [r \in {} |-> r]

Init ==
    /\ pc = "create_project_plan"
    /\ in_flight = {}
    /\ calls = <<>>
    /\ script_dir \in ScriptDirs
    /\ clock = 0
    /\ project_plan = Unbound
    /\ agent_assignments = Unbound
    /\ milestones = Unbound
    /\ test_requirements = Unbound
    /\ integrated_report = Unbound
    /\ final_report = Unbound
    /\ report_path = Unbound
    /\ summary_path = Unbound
    /\ summary = Unbound
    /\ report_file = "absent"
    /\ summary_file = "absent"
    /\ report_content = Unbound
    /\ summary_content = Unbound
    /\ returned = Unbound
    /\ error = NoError
    /\ runs = NoRuns
    /\ disk = {}

Next ==
    \/ CallCreateProjectPlan \/ ReturnCreateProjectPlan \/ RaiseCreateProjectPlan
    \/ CallAssignWork \/ AssignWorkKeyError \/ ReturnAssignWork \/ RaiseAssignWork
    \/ CallCreateMilestones \/ ReturnCreateMilestones \/ RaiseCreateMilestones
    \/ CallDefineTestRequirements \/ ReturnDefineTestRequirements
    \/ RaiseDefineTestRequirements
    \/ CallPlanAndReviewProject \/ ReturnPlanAndReviewProject
    \/ RaisePlanAndReviewProject
    \/ BuildFinalReport
    \/ OpenReport \/ OpenReportFails
    \/ DumpReport \/ DumpReportFails
    \/ RenderSummary \/ RenderSummaryRaises
    \/ OpenSummary \/ OpenSummaryFails
    \/ WriteSummary \/ WriteSummaryFails
    \/ Return

Spec == Init /\ [][Next]_vars

\* ------------------------------------------------- invocations of the script
\* Several invocations of the script, each its own process running the run
\* above against stubbed collaborators; only the clock readings, the paths and
\* the files on the shared disk are kept.

Runs == {1, 2}

single == <<pc, in_flight, calls, locals, final_report, files, returned, error>>

\* open(path, 'w') by run r: the file at path now holds what r writes
Overwrite(d, path, r) == {e \in d : e.path # path} \cup {[path |-> path, writer |-> r]}

\* the process starts: asyncio.run(run_minecraft_skin_studio_planning())
RunStart(r) ==
    /\ runs[r].pc = "idle"
    /\ runs' = [runs EXCEPT ![r].pc = "planning", ![r].started = clock]
    /\ UNCHANGED <<single, script_dir, clock, disk>>

\* the five awaited collaborator calls have returned, after any time
RunPlanned(r) ==
    /\ runs[r].pc = "planning"
    /\ runs' = [runs EXCEPT ![r].pc = "saving"]
    /\ UNCHANGED <<single, script_dir, clock, disk>>

\* report_path from datetime.now(), the report written, the summary written
RunSave(r) ==
    /\ runs[r].pc = "saving"
    /\ LET path == ReportPath(script_dir, clock)
       IN /\ runs' = [runs EXCEPT ![r].pc = "done", ![r].report_path = path,
                                  ![r].summary_path = SummaryPath(path)]
          /\ disk' = Overwrite(Overwrite(disk, path, r), SummaryPath(path), r)
    /\ UNCHANGED <<single, script_dir, clock>>

\* a second passes
Tick ==
    /\ clock < MaxClock
    /\ clock' = clock + 1
    /\ UNCHANGED <<single, script_dir, runs, disk>>

InitRuns ==
    /\ pc = "create_project_plan"
    /\ in_flight = {}
    /\ calls = <<>>
    /\ script_dir \in ScriptDirs
    /\ clock = 0
    /\ project_plan = Unbound
    /\ agent_assignments = Unbound
    /\ milestones = Unbound
    /\ test_requirements = Unbound
    /\ integrated_report = Unbound
    /\ final_report = Unbound
    /\ report_path = Unbound
    /\ summary_path = Unbound
    /\ summary = Unbound
    /\ report_file = "absent"
    /\ summary_file = "absent"
    /\ report_content = Unbound
    /\ summary_content = Unbound
    /\ returned = Unbound
    /\ error = NoError
    /\ runs = [r \in Runs |-> [pc |-> "idle", started |-> 0, report_path |-> <<>>,
                               summary_path |-> <<>>]]
    /\ disk = {}

NextRuns ==
    \/ \E r \in Runs : RunStart(r)
    \/ \E r \in Runs : RunPlanned(r)
    \/ \E r \in Runs : RunSave(r)
    \/ Tick

SpecRuns == InitRuns /\ [][NextRuns]_vars

\* ------------------------------------------------------------------- claims

CallOrder ==
    <<"create_project_plan", "assign_work", "create_milestones",
      "define_test_requirements", "plan_and_review_project">>

IsPrefix(s, t) == Len(s) <= Len(t) /\ s = SubSeq(t, 1, Len(s))

SectionHeadings ==
    << <<"## Project Overview">>, <<"## Key Features">>, <<"## Development Phases">>,
       <<"## Agent Assignments">>, <<"## Key Milestones">>, <<"## Success Metrics">>,
       <<"## Key Recommendations">> >>

IsHeading(line) == line \in Range(SectionHeadings)

\* the section headings of a summary, in the order they appear
Headings(text) == SelectSeq(text, IsHeading)

\* the lines of a summary between a heading and the next heading (or the end)
Body(text, heading) ==
    LET at == CHOOSE i \in DOMAIN text : text[i] = heading
        later == {j \in DOMAIN text : j > at /\ IsHeading(text[j])}
        stop == IF later = {} THEN Len(text) + 1
                ELSE CHOOSE j \in later : \A k \in later : j <= k
    IN SubSeq(text, at + 1, stop - 1)

NotBlank(line) == line # Blank
\* the lines of a section that are not blank
Entries(text, heading) == SelectSeq(Body(text, heading), NotBlank)

StartsWith(line, piece) == line # Blank /\ line[1] = piece

\* C1: the five collaborator operations are invoked in the order
\* create_project_plan, assign_work, create_milestones, define_test_requirements,
\* plan_and_review_project, each at most once and only after the previous one
\* has returned, so at most one call is in flight at any time; a run that
\* reaches its end has made each call exactly once.
C1_SequentialCalls ==
    /\ IsPrefix(calls, CallOrder)
    /\ Cardinality(in_flight) <= 1
    /\ in_flight # {} => in_flight = {calls[Len(calls)]}
    /\ pc = "done" => calls = CallOrder /\ in_flight = {}

C1_Witness == pc = "done" /\ calls = CallOrder

\* C2: when a collaborator call raises, the run ends at that call: the failed
\* call is the last one made, no call was made twice, and neither the report
\* file nor the summary file exists.
C2_AbortOnRaise ==
    error.kind = "CollaboratorError" =>
        /\ pc = "aborted"
        /\ in_flight = {}
        /\ calls # <<>> /\ calls[Len(calls)] = error.at
        /\ \A i, j \in DOMAIN calls : calls[i] = calls[j] => i = j
        /\ report_file = "absent" /\ summary_file = "absent"
        /\ final_report = Unbound /\ returned = Unbound

C2_Witness ==
    /\ pc = "aborted"
    /\ error = [kind |-> "CollaboratorError", at |-> "plan_and_review_project"]
    /\ Len(calls) = 5

\* C3: key_recommendations of the final report is the review's `recommendations`
\* when the review is neither None nor empty and has that key, and is empty
\* otherwise; when it is empty no bullet follows the summary's
\* "Key Recommendations" heading.
C3_KeyRecommendations ==
    /\ final_report # Unbound =>
          IF /\ integrated_report # PyNone
             /\ integrated_report # EmptyDict
             /\ "recommendations" \in DOMAIN integrated_report
          THEN final_report.key_recommendations = integrated_report.recommendations
          ELSE final_report.key_recommendations = <<>>
    /\ (summary_file = "written" /\ report_content.key_recommendations = <<>>) =>
          Entries(summary_content, <<"## Key Recommendations">>) = <<>>

C3_Witness ==
    /\ pc = "done"
    /\ summary_file = "written"
    /\ integrated_report = [status |-> "ok"]
    /\ returned.key_recommendations = <<>>

\* C4: two runs started more than one second apart never share a report path or
\* a summary path, however long their collaborator calls take.
C4_UniquePaths ==
    \A r1, r2 \in DOMAIN runs :
        ( /\ r1 # r2
          /\ runs[r1].pc = "done" /\ runs[r2].pc = "done"
          /\ runs[r2].started - runs[r1].started > 1 )
        => /\ runs[r1].report_path # runs[r2].report_path
           /\ runs[r1].summary_path # runs[r2].summary_path
           /\ \E e \in disk : e.path = runs[r1].report_path /\ e.writer = r1
           /\ \E e \in disk : e.path = runs[r1].summary_path /\ e.writer = r1

\* C5: generate_planning_summary never raises on a report in which a
\* collaborator-returned field is absent.
C5_OptionalFields == ~(error.kind = "KeyError" /\ error.at = "render_summary")

EmptyOutputs ==
    /\ project_plan = [work_breakdown |-> <<>>, phases |-> <<>>]
    /\ agent_assignments = <<>>
    /\ milestones = <<>>
    /\ integrated_report = EmptyDict

\* C6: with empty collaborator outputs no statement of the run raises, and the
\* run that reaches its end has written the report and a non-empty summary
\* whose headings are Project Overview, Key Features, Development Phases, Agent
\* Assignments, Key Milestones, Success Metrics, Key Recommendations in that
\* order, with no entry under Development Phases, Agent Assignments and Key
\* Milestones.
C6_EmptyOutputs ==
    (final_report # Unbound /\ EmptyOutputs) =>
        /\ error.kind # "KeyError"
        /\ pc = "done" =>
            /\ report_file = "written" /\ report_content = final_report
            /\ summary_file = "written" /\ summary_content # <<>>
            /\ Headings(summary_content) = SectionHeadings
            /\ Entries(summary_content, <<"## Development Phases">>) = <<>>
            /\ Entries(summary_content, <<"## Agent Assignments">>) = <<>>
            /\ Entries(summary_content, <<"## Key Milestones">>) = <<>>
            /\ Len(Entries(summary_content, <<"## Project Overview">>)) = 4
            /\ Len(Entries(summary_content, <<"## Success Metrics">>)) = 5

C6_Witness ==
    /\ pc = "done"
    /\ EmptyOutputs
    /\ test_requirements = [marker |-> "opaque"]
    /\ summary_file = "written"

Targets(report) ==
    [i \in DOMAIN report.success_metrics |-> report.success_metrics[i].target]

FixedTargets ==
    <<"< 5 minutes", "80% positive feedback", "0 incidents", "90% approval",
      "30 min average session">>

\* C7: a final report that was written to disk or returned has the five fixed
\* success-metric targets in order and an empty risk_assessment, whatever the
\* collaborators returned.
C7_FixedMetrics ==
    /\ report_file = "written" =>
          /\ Targets(report_content) = FixedTargets
          /\ report_content.risk_assessment = <<>>
    /\ pc = "done" =>
          /\ Targets(returned) = FixedTargets
          /\ returned.risk_assessment = <<>>

C7_Witness ==
    /\ pc = "done"
    /\ report_file = "written"
    /\ returned.key_recommendations = <<"add tests", "limit scope">>
    /\ HasKey(report_content.project_plan, "phases")
    /\ Len(report_content.project_plan.phases) = 2

\* the records of the data model: a phase and a milestone have a name, an
\* assignment has its three fields
WellFormed(report) ==
    /\ HasKey(report.project_plan, "phases") =>
          \A i \in DOMAIN report.project_plan.phases :
              HasKey(report.project_plan.phases[i], "name")
    /\ \A i \in DOMAIN report.agent_assignments :
          {"assigned_to", "task_description", "priority"}
              \subseteq DOMAIN report.agent_assignments[i]
    /\ \A i \in DOMAIN report.milestones : HasKey(report.milestones[i], "name")

IsPhaseHead(line) == StartsWith(line, "### ")
IsDuration(line) == StartsWith(line, "**Duration**: ")
IsBullet(line) == StartsWith(line, "- ")

\* the positions in text of the lines that start a phase entry
PhaseStarts(text) ==
    SelectSeq([i \in DOMAIN text |-> i], LAMBDA i : IsPhaseHead(text[i]))

\* the lines of the n-th phase entry of the Development Phases section
PhaseEntry(text, n) ==
    LET starts == PhaseStarts(text)
    IN SubSeq(text, starts[n],
              IF n < Len(starts) THEN starts[n + 1] - 1 ELSE Len(text))

\* C8: the summary has one entry per phase and one bullet per milestone, in
\* input order: a phase without duration shows "TBD", a phase without
\* deliverables has no deliverable bullet, a milestone without description shows
\* an empty description; rendering such records raises no error.
C8_PhasesAndMilestones ==
    /\ (final_report # Unbound /\ WellFormed(final_report)) =>
          ~(error.kind = "KeyError" /\ error.at = "render_summary")
    /\ summary # Unbound =>
          LET phases == Get(final_report.project_plan, "phases", <<>>)
              section == Body(summary, <<"## Development Phases">>)
              stones == Entries(summary, <<"## Key Milestones">>)
          IN /\ Len(PhaseStarts(section)) = Len(phases)
             /\ \A n \in DOMAIN phases :
                   LET entry == PhaseEntry(section, n)
                       wanted == Get(phases[n], "deliverables", <<>>)
                   IN /\ entry[1] = <<"### ", phases[n].name>>
                      /\ SelectSeq(entry, IsDuration)
                            = << <<"**Duration**: ",
                                   IF HasKey(phases[n], "duration")
                                   THEN phases[n].duration ELSE "TBD">> >>
                      /\ SelectSeq(entry, IsBullet)
                            = [k \in DOMAIN wanted |-> <<"- ", wanted[k]>>]
             /\ Len(stones) = Len(final_report.milestones)
             /\ \A n \in DOMAIN stones :
                   stones[n] = <<"- **", final_report.milestones[n].name, "**: ",
                                 IF HasKey(final_report.milestones[n], "description")
                                 THEN final_report.milestones[n].description ELSE "">>

C8_Witness ==
    /\ summary_file = "written"
    /\ HasKey(final_report.project_plan, "phases")
    /\ final_report.project_plan.phases
          = << [name |-> "testing"],
               [name |-> "design", duration |-> "2 weeks",
                deliverables |-> <<"wireframes", "style guide">>] >>
    /\ final_report.milestones
          = << [name |-> "beta"], [name |-> "alpha", description |-> "first playable"] >>

\* os.path.dirname of a path
Dirname(path) ==
    LET slashes == {i \in DOMAIN path : path[i] = "/"}
    IN IF slashes = {} THEN <<>>
       ELSE SubSeq(path, 1, (CHOOSE i \in slashes : \A j \in slashes : j <= i) - 1)

\* C9: the summary path is the report path with only its trailing ".json"
\* replaced by "_summary.md", so both files are in the same directory, also
\* when the directory's path holds ".json".
C9_SameDirectory ==
    summary_path # Unbound =>
        /\ summary_path
              = SubSeq(report_path, 1, Len(report_path) - 5)
                    \o <<"_", "s", "u", "m", "m", "a", "r", "y", ".", "m", "d">>
        /\ Dirname(summary_path) = Dirname(report_path)

SummaryFailures == {"render_summary", "open_summary", "write_summary"}

\* C10 as stated: the summary file exists only if the report file is completely
\* written, and a run that fails while rendering or writing the summary ends
\* with the report file on disk and no summary file.
C10_NoSummaryOnFailure ==
    /\ summary_file # "absent" => report_file = "written"
    /\ (pc = "aborted" /\ error.at \in SummaryFailures) =>
          report_file = "written" /\ summary_file = "absent"

\* C10 as amended: the report is completely written before rendering starts and
\* the summary file exists only if the report file is completely written; a run
\* that fails while rendering the summary or opening its file ends with the
\* report on disk and no summary file, and a run whose write fails after the
\* file was opened ends with the report on disk and a summary file that lacks
\* the text.
C10_ReportBeforeSummary ==
    /\ summary_file # "absent" => report_file = "written"
    /\ (summary # Unbound \/ summary_path # Unbound) =>
          report_file = "written" /\ report_content = final_report
    /\ (pc = "aborted" /\ error.at \in {"render_summary", "open_summary"}) =>
          report_file = "written" /\ summary_file = "absent"
    /\ (pc = "aborted" /\ error.at = "write_summary") =>
          /\ report_file = "written"
          /\ summary_file = "opened" /\ summary_content = Unbound

C10_Witness ==
    /\ pc = "aborted"
    /\ error = [kind |-> "OSError", at |-> "write_summary"]
    /\ Len(calls) = 5

====
